---- MODULE Spec2Model ----
(***************************************************************************)
(* Model of custom_components/RuRadioHomeAssist/media_source.py:           *)
(* RadioMediaSource, the media source that exposes the Radio Browser       *)
(* directory (Russian stations) as a browsable tree and resolves a station *)
(* to a stream.                                                            *)
(*                                                                         *)
(* Python str values that the code takes apart (identifiers, tags, names,  *)
(* languages) are sequences of character codes, so that partition, split,  *)
(* strip, lower, title and string comparison are computed, not assumed.    *)
(* Values the code only compares or looks up (codec, mime type, country    *)
(* code, url) are TLA+ strings.  Python None is None for those, NoneStr    *)
(* for a character sequence and NoneNum for a coordinate or distance.      *)
(***************************************************************************)
EXTENDS Integers, Sequences, FiniteSets, TLC

VARIABLES directory, pc, item, station, calls, children, tag_count, result

vars == <<directory, pc, item, station, calls, children, tag_count, result>>

(* ------------------------------------------------------------------ *)
(* Bounds of the model                                                 *)
(* ------------------------------------------------------------------ *)

\* the directory holds at most this many of the stations of Pool
MaxStations == 3

(* ------------------------------------------------------------------ *)
(* Python values                                                       *)
(* ------------------------------------------------------------------ *)

None == "None"
NoneStr == <<-1>>
NoneNum == -1000

COMMA == 44
SLASH == 47

\* "tag"
STR_TAG == <<116, 97, 103>>
\* "russian"
STR_RUSSIAN == <<114, 117, 115, 115, 105, 97, 110>>
\* "By Category"
STR_BY_CATEGORY == <<66, 121, 32, 67, 97, 116, 101, 103, 111, 114, 121>>

DOMAIN_NAME == "radio_browser"

Truthy(v) == v # None /\ v # ""

\* truth value of a str | None held as a character sequence
TruthyStr(s) == s # NoneStr /\ s # <<>>

\* s or ""
OrEmpty(s) == IF TruthyStr(s) THEN s ELSE <<>>

\* str.isspace for ASCII
IsSpace(c) == c \in {9, 10, 11, 12, 13, 28, 29, 30, 31, 32}

IsUpper(c) == c >= 65 /\ c <= 90
IsLower(c) == c >= 97 /\ c <= 122

ToLower(c) == IF IsUpper(c) THEN c + 32 ELSE c
ToUpper(c) == IF IsLower(c) THEN c - 32 ELSE c

SetMin(S) == CHOOSE x \in S : \A y \in S : x <= y
SetMax(S) == CHOOSE x \in S : \A y \in S : x >= y

\* str.strip() left out: the string as it is
Strip_None(s) == s

\* str.strip()
Strip(s) ==
    LET keep == {i \in 1..Len(s) : ~IsSpace(s[i])}
    IN  IF keep = {} THEN <<>> ELSE SubSeq(s, SetMin(keep), SetMax(keep))

\* str.lower()
Lower(s) == [i \in 1..Len(s) |-> ToLower(s[i])]

\* str.title(): a cased character is upper-cased after an uncased one and
\* lower-cased after a cased one
Title(s) ==
    [i \in 1..Len(s) |->
        IF i = 1 \/ ~(IsUpper(s[i - 1]) \/ IsLower(s[i - 1]))
        THEN ToUpper(s[i])
        ELSE ToLower(s[i])]

\* sub in s
Contains(sub, s) ==
    \E i \in 0..(Len(s) - Len(sub)) : SubSeq(s, i + 1, i + Len(sub)) = sub

\* index of the first occurrence of the character c in s, 0 when absent
Find(s, c) ==
    LET at == {i \in 1..Len(s) : s[i] = c}
    IN  IF at = {} THEN 0 ELSE SetMin(at)

\* str.partition(c): <<head, separator, tail>>
Partition(s, c) ==
    LET i == Find(s, c)
    IN  IF i = 0
        THEN <<s, <<>>, <<>>>>
        ELSE <<SubSeq(s, 1, i - 1), <<c>>, SubSeq(s, i + 1, Len(s))>>

Abs(x) == IF x < 0 THEN -x ELSE x

\* str.split(c): the pieces between the occurrences of c, left to right.
\* The string is cut at the occurrence nearest its middle and the two
\* sides are split in turn, which gives the same pieces as cutting at the
\* first occurrence and keeps the evaluation shallow on a long string.
RECURSIVE Split(_, _)
Split(s, c) ==
    LET at == {i \in 1..Len(s) : s[i] = c}
    IN  IF at = {}
        THEN <<s>>
        ELSE LET i == CHOOSE k \in at :
                          \A j \in at : Abs(2 * k - Len(s)) <= Abs(2 * j - Len(s))
             IN  Split(SubSeq(s, 1, i - 1), c) \o Split(SubSeq(s, i + 1, Len(s)), c)

\* a < b for str: by code point, a proper prefix first
RECURSIVE StrLess(_, _)
StrLess(a, b) ==
    IF b = <<>> THEN FALSE
    ELSE IF a = <<>> THEN TRUE
    ELSE IF a[1] # b[1] THEN a[1] < b[1]
    ELSE StrLess(Tail(a), Tail(b))

\* the sort keys of the module and of the directory's queries: a sorts
\* strictly before b
Before(order, a, b) ==
    CASE order = "NAME" -> StrLess(a.name, b.name)
      [] order = "NAME_REVERSE" -> StrLess(b.name, a.name)
      [] order = "CLICK_COUNT" -> a.clickcount < b.clickcount
      [] order = "CLICK_COUNT_REVERSE" -> a.clickcount > b.clickcount
      [] order = "stationcount" -> a.stationcount < b.stationcount
      [] order = "stationcount_reverse" -> a.stationcount > b.stationcount
      [] order = "name" -> StrLess(a.name, b.name)

\* list.sort / sorted: stable, by the key named order.  An element goes to
\* the place given by the number of elements that sort before it: those
\* that are less, and those that are equal and stand before it in seq.
SortStable(seq, order) ==
    LET n == Len(seq)
        place == {<<Cardinality({j \in 1..n :
                        \/ Before(order, seq[j], seq[i])
                        \/ (~Before(order, seq[i], seq[j]) /\ j < i)}) + 1, i>> : i \in 1..n}
    IN  [p \in 1..n |-> seq[(CHOOSE pi \in place : pi[1] = p)[2]]]

\* seq[:n]
Prefix(seq, n) == SubSeq(seq, 1, IF Len(seq) < n THEN Len(seq) ELSE n)

(* ------------------------------------------------------------------ *)
(* Program constants                                                   *)
(* ------------------------------------------------------------------ *)

CODEC_TO_MIMETYPE ==
    [c \in {"MP3", "AAC", "AAC+", "OGG"} |->
        CASE c = "MP3" -> "audio/mpeg"
          [] c = "AAC" -> "audio/aac"
          [] c = "AAC+" -> "audio/aac"
          [] c = "OGG" -> "application/ogg"]

\* 'RU'
STR_RU == <<82, 85>>

\* limit=250 of the popular query
POPULAR_LIMIT == 250
\* tags[:100]
TAG_LIMIT == 100
\* dist < 100
LOCAL_RADIUS == 100

(* ------------------------------------------------------------------ *)
(* The environment: the stations of the directory, the host's          *)
(* coordinate, and the library functions the module calls              *)
(* ------------------------------------------------------------------ *)

\* number of generated tags of the station with the long tags field
WideTagCount == 104

\* "a0", "a1", ... : distinct two-character tags
GenTag(k) == <<97 + (k \div 10), 48 + (k % 10)>>

\* "a0,a1,...," : the first n generated tags, a comma after each
GenTags(n) ==
    [i \in 1..(3 * n) |->
        CASE (i - 1) % 3 = 0 -> GenTag((i - 1) \div 3)[1]
          [] (i - 1) % 3 = 1 -> GenTag((i - 1) \div 3)[2]
          [] OTHER -> COMMA]

\* "Rock"
STR_ROCK == <<82, 111, 99, 107>>
\* "jazz"
STR_JAZZ == <<106, 97, 122, 122>>
\* "Jazz"
STR_CJAZZ == <<74, 97, 122, 122>>
\* "Pop"
STR_POP == <<80, 111, 112>>

\* the stations the directory may hold; uuid and name are one or two
\* characters, the coordinates are whole degrees
Pool ==
    << \* "w0": more distinct tags than TAG_LIMIT, "Rock" counted last
       [uuid |-> <<119, 48>>, name |-> <<69>>, codec |-> "AAC",
        url |-> "http://x/stream", url_resolved |-> "http://r/w",
        favicon |-> None, latitude |-> NoneNum, longitude |-> NoneNum,
        countrycode |-> STR_RU, language |-> STR_RUSSIAN,
        tags |-> GenTags(WideTagCount) \o STR_ROCK, clickcount |-> 50],
       \* "u1": tags "Jazz, Rock"
       [uuid |-> <<117, 49>>, name |-> <<68>>, codec |-> "MP3",
        url |-> "http://x/stream", url_resolved |-> "http://r/1",
        favicon |-> "http://f/1", latitude |-> 55, longitude |-> 38,
        countrycode |-> STR_RU, language |-> STR_RUSSIAN,
        tags |-> STR_CJAZZ \o <<COMMA, 32>> \o STR_ROCK, clickcount |-> 10],
       \* "u2": tags "jazz", codec UNKNOWN with a known extension
       [uuid |-> <<117, 50>>, name |-> <<67>>, codec |-> "UNKNOWN",
        url |-> "http://x/a.mp3", url_resolved |-> "http://r/2",
        favicon |-> None, latitude |-> 55, longitude |-> NoneNum,
        countrycode |-> STR_RU, language |-> NoneStr,
        tags |-> STR_JAZZ, clickcount |-> 30],
       \* "u3": tags "Rock, Pop", codec outside the table, no extension
       [uuid |-> <<117, 51>>, name |-> <<66>>, codec |-> "FLAC",
        url |-> "http://x/stream", url_resolved |-> "http://r/3",
        favicon |-> "http://f/3", latitude |-> 56, longitude |-> 37,
        countrycode |-> STR_RU, language |-> <<82>> \o Tail(STR_RUSSIAN),
        tags |-> STR_ROCK \o <<COMMA, 32>> \o STR_POP, clickcount |-> 20],
       \* "u4": a US station in Russian, codec OGG with an .mp3 url
       [uuid |-> <<117, 52>>, name |-> <<65>>, codec |-> "OGG",
        url |-> "http://x/a.mp3", url_resolved |-> "http://r/4",
        favicon |-> None, latitude |-> 55, longitude |-> 37,
        countrycode |-> <<85, 83>>, language |-> STR_RUSSIAN,
        tags |-> STR_ROCK, clickcount |-> 40],
       \* "u5": no tags, the distance does not converge
       [uuid |-> <<117, 53>>, name |-> <<72>>, codec |-> "AAC+",
        url |-> "http://x/b.ogg", url_resolved |-> "http://r/5",
        favicon |-> None, latitude |-> -55, longitude |-> -143,
        countrycode |-> STR_RU, language |-> <<>>,
        tags |-> <<>>, clickcount |-> 5],
       \* "u6": tags " ,Rock,,Rock, ", codec outside the table, .ogg url,
       \* exactly on the radius
       [uuid |-> <<117, 54>>, name |-> <<71>>, codec |-> "OPUS",
        url |-> "http://x/b.ogg", url_resolved |-> "http://r/6",
        favicon |-> "http://f/6", latitude |-> 54, longitude |-> 36,
        countrycode |-> STR_RU, language |-> STR_RUSSIAN,
        tags |-> <<32, COMMA>> \o STR_ROCK \o <<COMMA, COMMA>> \o STR_ROCK
                 \o <<COMMA, 32>>,
        clickcount |-> 15],
       \* "u7": UNKNOWN codec, no extension, at the host's coordinate
       [uuid |-> <<117, 55>>, name |-> <<70>>, codec |-> "UNKNOWN",
        url |-> "http://x/stream", url_resolved |-> "http://r/7",
        favicon |-> None, latitude |-> 55, longitude |-> 37,
        countrycode |-> STR_RU, language |-> STR_RUSSIAN,
        tags |-> STR_POP \o <<COMMA>> \o STR_POP, clickcount |-> 25] >>

\* the stations of Pool at the indices I, in the order of Pool
RECURSIVE Pick(_, _)
Pick(I, k) ==
    IF k > Len(Pool) THEN <<>>
    ELSE IF k \in I THEN <<Pool[k]>> \o Pick(I, k + 1)
    ELSE Pick(I, k + 1)

Directories ==
    {Pick(I, 1) : I \in {J \in SUBSET (1..Len(Pool)) : Cardinality(J) <= MaxStations}}

\* hass.config.latitude, hass.config.longitude
HomeLatitude == 55
HomeLongitude == 37

\* homeassistant.util.location.vincenty(point1, point2, miles): kilometres,
\* None when the iteration does not converge.  The values stand for the
\* library's results at the coordinates of Pool.
vincenty(point1, point2, miles) ==
    CASE point2 = point1 -> 0
      [] point2 = <<55, 38>> -> 64
      [] point2 = <<54, 36>> -> 100
      [] point2 = <<56, 37>> -> 111
      [] OTHER -> NoneNum

\* mimetypes.guess_type(url)[0]
GuessType(url) ==
    CASE url = "http://x/a.mp3" -> "audio/mpeg"
      [] url = "http://x/b.ogg" -> "audio/ogg"
      [] OTHER -> None

\* the stripped non-empty tags of a station, as the directory indexes them
ServiceTags(s) ==
    IF ~TruthyStr(s.tags) THEN {}
    ELSE LET pieces == Split(s.tags, COMMA)
         IN  {Strip(pieces[i]) : i \in 1..Len(pieces)} \ {<<>>}

ServiceMatch(s, q) ==
    CASE q.filter_by = "COUNTRY_CODE_EXACT" -> s.countrycode = q.filter_term
      [] q.filter_by = "LANGUAGE_EXACT" -> s.language = q.filter_term
      [] q.filter_by = "TAG_EXACT" -> q.filter_term \in ServiceTags(s)

\* RadioBrowser.stations(filter_by, filter_term, hide_broken, limit, order,
\* reverse): the reply of the directory to the query q
Stations(q) ==
    LET hit(s) == ServiceMatch(s, q)
        found == SelectSeq(directory, hit)
        sorted ==
            IF q.order = None THEN found
            ELSE SortStable(found, IF q.reverse THEN q.order \o "_REVERSE" ELSE q.order)
    IN  IF q.limit = NoneNum THEN sorted ELSE Prefix(sorted, q.limit)

\* RadioBrowser.station(uuid): <<>> for None, else <<station>>
StationByUuid(uuid) ==
    LET same(s) == s.uuid = uuid
        found == SelectSeq(directory, same)
    IN  IF found = <<>> THEN <<>> ELSE <<found[1]>>

(* ------------------------------------------------------------------ *)
(* RadioMediaSource: the functions                                     *)
(* ------------------------------------------------------------------ *)

\* CODEC_TO_MIMETYPE.get(codec)
CodecGet(codec) ==
    IF codec \in DOMAIN CODEC_TO_MIMETYPE THEN CODEC_TO_MIMETYPE[codec] ELSE None

\* a mime type is made up when neither the table nor the url gives one
MimeType_Default(s) ==
    LET mime_type == CodecGet(s.codec)
        guessed == IF ~Truthy(mime_type) THEN GuessType(s.url) ELSE mime_type
    IN  IF ~Truthy(guessed) THEN "audio/mpeg" ELSE guessed

_async_get_station_mime_type(s) ==
    LET mime_type == CodecGet(s.codec)
    IN  IF ~Truthy(mime_type) THEN GuessType(s.url) ELSE mime_type

\* the BrowseMediaSource of a station
StationNode(s, mime_type) ==
    [domain |-> DOMAIN_NAME, identifier |-> s.uuid, media_class |-> "music",
     media_content_type |-> mime_type, title |-> s.name,
     can_play |-> TRUE, can_expand |-> FALSE, thumbnail |-> s.favicon]

\* the test of the sentinel codec left out
SkipStation_NoSentinel(s) == ~Truthy(_async_get_station_mime_type(s))

\* the test of the mime type left out
SkipStation_OnlySentinel(s) == s.codec = "UNKNOWN"

\* the condition under which the loop skips a station
SkipStation(s) ==
    s.codec = "UNKNOWN" \/ ~Truthy(_async_get_station_mime_type(s))

RECURSIVE _async_build_stations(_)
_async_build_stations(stations) ==
    IF stations = <<>> THEN <<>>
    ELSE LET s == Head(stations)
         IN  IF SkipStation(s)
             THEN _async_build_stations(Tail(stations))
             ELSE <<StationNode(s, _async_get_station_mime_type(s))>>
                  \o _async_build_stations(Tail(stations))

\* a BrowseMediaSource that is a directory
DirectoryNode(identifier, title) ==
    [domain |-> DOMAIN_NAME, identifier |-> identifier,
     media_class |-> "directory", media_content_type |-> "music",
     title |-> title, can_play |-> FALSE, can_expand |-> TRUE,
     thumbnail |-> None]

\* the tag is lower-cased before it is counted
TagCountAdd_Lower(tc, tag) ==
    IF \E i \in 1..Len(tc) : tc[i].name = Lower(tag)
    THEN LET i == CHOOSE k \in 1..Len(tc) : tc[k].name = Lower(tag)
         IN  [tc EXCEPT ![i].stationcount = @ + 1]
    ELSE Append(tc, [name |-> Lower(tag), stationcount |-> 1])

\* tag_count[tag] = tag_count.get(tag, 0) + 1; the dict keeps the order in
\* which its keys were first set
TagCountAdd(tc, tag) ==
    IF \E i \in 1..Len(tc) : tc[i].name = tag
    THEN LET i == CHOOSE k \in 1..Len(tc) : tc[k].name = tag
         IN  [tc EXCEPT ![i].stationcount = @ + 1]
    ELSE Append(tc, [name |-> tag, stationcount |-> 1])

\* for tag in station.tags.split(','): strip, count when not empty.
\* The loop over a long list is run as the loop over its first half
\* followed by the loop over its second half.
RECURSIVE CountPieces(_, _)
CountPieces(tc, pieces) ==
    IF pieces = <<>> THEN tc
    ELSE IF Len(pieces) = 1
    THEN LET tag == Strip(pieces[1])
         IN  IF tag # <<>> THEN TagCountAdd(tc, tag) ELSE tc
    ELSE LET h == Len(pieces) \div 2
             first == CountPieces(tc, SubSeq(pieces, 1, h))
         IN  \* the test has first evaluated before the second half is entered
             IF Len(first) < 0 THEN first
             ELSE CountPieces(first, SubSeq(pieces, h + 1, Len(pieces)))

\* for station in stations: if station.tags: ...
RECURSIVE CountStations(_, _)
CountStations(tc, stations) ==
    IF stations = <<>> THEN tc
    ELSE LET s == Head(stations)
         IN  CountStations(IF TruthyStr(s.tags)
                           THEN CountPieces(tc, Split(s.tags, COMMA))
                           ELSE tc,
                           Tail(stations))

\* reverse=True left out: the least counted first
SortByCount_Ascending(tags) == SortStable(tags, "stationcount")

\* tags.sort(key=stationcount, reverse=True)
SortByCount(tags) == SortStable(tags, "stationcount_reverse")

\* tags = tags[:100]
Truncate(tags) == Prefix(tags, TAG_LIMIT)

\* tags.sort(key=name)
SortByName(tags) == SortStable(tags, "name")

\* the tags list of the code after its two sorts
TopTags(tc) == SortByName(Truncate(SortByCount(tc)))

TagNodes(tags) ==
    [i \in 1..Len(tags) |->
        DirectoryNode(STR_TAG \o <<SLASH>> \o tags[i].name, Title(tags[i].name))]

\* s.countrycode == 'RU' or 'russian' in (s.language or '').lower()
IsRussian(s) ==
    s.countrycode = STR_RU \/ Contains(STR_RUSSIAN, Lower(OrEmpty(s.language)))

\* dist <= 100 in place of dist < 100
IsLocal_Inclusive(s, latitude, longitude) ==
    /\ s.latitude # NoneNum
    /\ s.longitude # NoneNum
    /\ s.countrycode = STR_RU
    /\ LET dist == vincenty(<<latitude, longitude>>,
                            <<s.latitude, s.longitude>>, FALSE)
       IN  dist # NoneNum /\ dist <= LOCAL_RADIUS

IsLocal(s, latitude, longitude) ==
    /\ s.latitude # NoneNum
    /\ s.longitude # NoneNum
    /\ s.countrycode = STR_RU
    /\ LET dist == vincenty(<<latitude, longitude>>,
                            <<s.latitude, s.longitude>>, FALSE)
       IN  dist # NoneNum /\ dist < LOCAL_RADIUS

_filter_local_stations(stations, latitude, longitude) ==
    LET keep(s) == IsLocal(s, latitude, longitude)
    IN  SelectSeq(stations, keep)

(* ------------------------------------------------------------------ *)
(* The queries the builders send                                       *)
(* ------------------------------------------------------------------ *)

Query(filter_by, filter_term, limit, order, reverse) ==
    [op |-> "stations", filter_by |-> filter_by, filter_term |-> filter_term,
     hide_broken |-> TRUE, limit |-> limit, order |-> order, reverse |-> reverse]

PopularQuery == Query("COUNTRY_CODE_EXACT", STR_RU, POPULAR_LIMIT, "CLICK_COUNT", TRUE)
LanguageQuery == Query("LANGUAGE_EXACT", STR_RUSSIAN, NoneNum, "NAME", FALSE)
LocalQuery == Query("COUNTRY_CODE_EXACT", STR_RU, NoneNum, "NAME", FALSE)
CountryQuery == Query("COUNTRY_CODE_EXACT", STR_RU, NoneNum, "NAME", FALSE)
TagQuery(tag) == Query("TAG_EXACT", tag, NoneNum, "NAME", FALSE)
TagIndexQuery == Query("COUNTRY_CODE_EXACT", STR_RU, NoneNum, None, FALSE)

\* category, _, tag = (item.identifier or "").partition("/")
Category(identifier) == Partition(OrEmpty(identifier), SLASH)[1]
TagOf(identifier) == Partition(OrEmpty(identifier), SLASH)[3]

(* ------------------------------------------------------------------ *)
(* Requests                                                            *)
(* ------------------------------------------------------------------ *)

\* identifiers of browse requests: None, "", "tag", "tag/", "tag/Rock",
\* "tag/jazz", "tag/a0/Pop", "tagx", "/tag", "u1"
BrowseIds ==
    {NoneStr, <<>>, STR_TAG, STR_TAG \o <<SLASH>>,
     STR_TAG \o <<SLASH>> \o STR_ROCK, STR_TAG \o <<SLASH>> \o STR_JAZZ,
     STR_TAG \o <<SLASH>> \o GenTag(0) \o <<SLASH>> \o STR_POP,
     STR_TAG \o <<120>>, <<SLASH>> \o STR_TAG, <<117, 49>>}

\* identifiers of resolve requests: the uuids of Pool and "gone"
ResolveIds == {Pool[i].uuid : i \in 1..Len(Pool)} \cup {<<103, 111, 110, 101>>}

NoResult == [kind |-> "none"]

Unresolvable(message) == [kind |-> "Unresolvable", message |-> message]

PlayMedia(url, mime_type) == [kind |-> "PlayMedia", url |-> url, mime_type |-> mime_type]

\* an exception of the directory client leaving the coroutine
Raised(exception) == [kind |-> "Raised", exception |-> exception]

Init ==
    /\ directory \in Directories
    /\ pc = "idle"
    /\ item = <<>>
    /\ station = <<>>
    /\ calls = <<>>
    /\ children = <<>>
    /\ tag_count = <<>>
    /\ result = NoResult

Idle == pc \in {"idle", "done"}

(* ---------------- async_resolve_media ---------------- *)

\* the request arrives; radios.station(uuid=item.identifier) is awaited
ResolveStart(id) ==
    /\ Idle
    /\ item' = id
    /\ station' = <<>>
    /\ calls' = <<[op |-> "station", uuid |-> id]>>
    /\ children' = <<>>
    /\ tag_count' = <<>>
    /\ result' = NoResult
    /\ pc' = "resolve_station"
    /\ UNCHANGED directory

\* the statements between the reply of radios.station and the await of
\* radios.station_click
ResolveStation ==
    /\ pc = "resolve_station"
    /\ LET found == StationByUuid(item)
       IN  /\ station' = found
           /\ IF found = <<>>
              THEN /\ result' = Unresolvable("Radio station is no longer available")
                   /\ pc' = "done"
                   /\ UNCHANGED calls
              ELSE IF ~Truthy(_async_get_station_mime_type(found[1]))
              THEN /\ result' = Unresolvable("Could not determine stream type of radio station")
                   /\ pc' = "done"
                   /\ UNCHANGED calls
              ELSE /\ calls' = Append(calls, [op |-> "station_click", uuid |-> found[1].uuid])
                   /\ pc' = "resolve_click"
                   /\ UNCHANGED result
    /\ UNCHANGED <<directory, item, children, tag_count>>

\* the outcome of await radios.station_click(...): it returns, or the
\* client raises and nothing catches the exception
ClickOutcome(ok) ==
    IF ok
    THEN PlayMedia(station[1].url_resolved, _async_get_station_mime_type(station[1]))
    ELSE Raised("RadioBrowserError")

ResolveClick(ok) ==
    /\ pc = "resolve_click"
    /\ result' = ClickOutcome(ok)
    /\ pc' = "done"
    /\ UNCHANGED <<directory, item, station, calls, children, tag_count>>

(* ---------------- async_browse_media ---------------- *)

BrowseStart(id) ==
    /\ Idle
    /\ item' = id
    /\ station' = <<>>
    /\ calls' = <<>>
    /\ children' = <<>>
    /\ tag_count' = <<>>
    /\ result' = NoResult
    /\ pc' = "popular"
    /\ UNCHANGED directory

\* a builder up to its await: it sends its query when the identifier is
\* empty and returns [] otherwise
SendOrSkip(at, query, waiting, next) ==
    /\ pc = at
    /\ IF ~TruthyStr(item)
       THEN /\ calls' = Append(calls, query)
            /\ pc' = waiting
       ELSE /\ pc' = next
            /\ UNCHANGED calls
    /\ UNCHANGED <<directory, item, station, children, tag_count, result>>

\* the nodes of a builder put before the children gathered so far
Reply_Prepend(waiting, nodes, next) ==
    /\ pc = waiting
    /\ children' = nodes \o children
    /\ pc' = next
    /\ UNCHANGED <<directory, item, station, calls, tag_count, result>>

\* a builder from the reply to its return; the caller appends the nodes
Reply(waiting, nodes, next) ==
    /\ pc = waiting
    /\ children' = children \o nodes
    /\ pc' = next
    /\ UNCHANGED <<directory, item, station, calls, tag_count, result>>

PopularNodes == _async_build_stations(Stations(PopularQuery))
LanguageNodes == _async_build_stations(Stations(LanguageQuery))
CountryNodes == _async_build_stations(Stations(CountryQuery))
LocalNodes ==
    _async_build_stations(
        _filter_local_stations(Stations(LocalQuery), HomeLatitude, HomeLongitude))
TagStationNodes(tag) ==
    _async_build_stations(SelectSeq(Stations(TagQuery(tag)), IsRussian))

BuildPopular == SendOrSkip("popular", PopularQuery, "popular_wait", "by_tag")

PopularReply == Reply("popular_wait", PopularNodes, "by_tag")

\* the category tested by startswith("tag") in place of the partition
TagBranch_Prefix(identifier) ==
    LET id == OrEmpty(identifier)
        is_tag == Len(id) >= 3 /\ SubSeq(id, 1, 3) = STR_TAG
    IN  IF is_tag /\ TagOf(identifier) # <<>> THEN "stations"
        ELSE IF is_tag THEN "index"
        ELSE IF ~TruthyStr(identifier) THEN "entry"
        ELSE "none"

\* which of the four branches of _async_build_by_tag an identifier takes
TagBranch(identifier) ==
    IF Category(identifier) = STR_TAG /\ TagOf(identifier) # <<>> THEN "stations"
    ELSE IF Category(identifier) = STR_TAG THEN "index"
    ELSE IF ~TruthyStr(identifier) THEN "entry"
    ELSE "none"

BuildByTag ==
    /\ pc = "by_tag"
    /\ LET branch == TagBranch(item)
       IN  CASE branch = "stations" ->
                   /\ calls' = Append(calls, TagQuery(TagOf(item)))
                   /\ pc' = "tag_stations_wait"
                   /\ UNCHANGED children
             [] branch = "index" ->
                   /\ calls' = Append(calls, TagIndexQuery)
                   /\ pc' = "tag_index_wait"
                   /\ UNCHANGED children
             [] branch = "entry" ->
                   /\ children' = children \o <<DirectoryNode(STR_TAG, STR_BY_CATEGORY)>>
                   /\ pc' = "by_language"
                   /\ UNCHANGED calls
             [] OTHER ->
                   /\ pc' = "by_language"
                   /\ UNCHANGED <<calls, children>>
    /\ UNCHANGED <<directory, item, station, tag_count, result>>

TagStationsReply == Reply("tag_stations_wait", TagStationNodes(TagOf(item)), "by_language")

TagIndexReply ==
    /\ pc = "tag_index_wait"
    /\ LET tc == CountStations(<<>>, Stations(TagIndexQuery))
       IN  /\ tag_count' = tc
           /\ children' = children \o TagNodes(TopTags(tc))
    /\ pc' = "by_language"
    /\ UNCHANGED <<directory, item, station, calls, result>>

BuildByLanguage == SendOrSkip("by_language", LanguageQuery, "language_wait", "local")

LanguageReply == Reply("language_wait", LanguageNodes, "local")

BuildLocal == SendOrSkip("local", LocalQuery, "local_wait", "by_country")

\* the reply, the executor job running _filter_local_stations, and the build
LocalReply == Reply("local_wait", LocalNodes, "by_country")

BuildByCountry == SendOrSkip("by_country", CountryQuery, "country_wait", "return")

CountryReply == Reply("country_wait", CountryNodes, "return")

BrowseReturn ==
    /\ pc = "return"
    /\ result' = [kind |-> "BrowseMediaSource", domain |-> DOMAIN_NAME,
                  identifier |-> None, media_class |-> "channel",
                  media_content_type |-> "music", can_play |-> FALSE,
                  can_expand |-> TRUE, children_media_class |-> "directory",
                  children |-> children]
    /\ pc' = "done"
    /\ UNCHANGED <<directory, item, station, calls, children, tag_count>>

Next ==
    \/ \E id \in ResolveIds : ResolveStart(id)
    \/ ResolveStation
    \/ \E ok \in BOOLEAN : ResolveClick(ok)
    \/ \E id \in BrowseIds : BrowseStart(id)
    \/ BuildPopular
    \/ PopularReply
    \/ BuildByTag
    \/ TagStationsReply
    \/ TagIndexReply
    \/ BuildByLanguage
    \/ LanguageReply
    \/ BuildLocal
    \/ LocalReply
    \/ BuildByCountry
    \/ CountryReply
    \/ BrowseReturn

Spec == Init /\ [][Next]_vars

(* ------------------------------------------------------------------ *)
(* The two list functions applied to arbitrary station lists           *)
(* ------------------------------------------------------------------ *)

\* every list of at most MaxStations distinct stations of Pool, in any order
StationLists ==
    UNION {{q \in [1..n -> 1..Len(Pool)] : \A i, j \in 1..n : q[i] = q[j] => i = j}
           : n \in 0..MaxStations}

InitPure ==
    /\ directory \in {[k \in 1..Len(q) |-> Pool[q[k]]] : q \in StationLists}
    /\ pc = "idle"
    /\ item = <<>>
    /\ station = <<>>
    /\ calls = <<>>
    /\ children = <<>>
    /\ tag_count = <<>>
    /\ result = NoResult

\* _async_build_stations(radios, stations) on the list held in directory
ApplyBuildStations ==
    /\ pc = "idle"
    /\ children' = _async_build_stations(directory)
    /\ pc' = "built"
    /\ UNCHANGED <<directory, item, station, calls, tag_count, result>>

\* _filter_local_stations(stations, latitude, longitude) on the list held
\* in directory
ApplyFilterLocal ==
    /\ pc = "idle"
    /\ result' = [kind |-> "stations",
                  stations |-> _filter_local_stations(directory, HomeLatitude, HomeLongitude)]
    /\ pc' = "filtered"
    /\ UNCHANGED <<directory, item, station, calls, children, tag_count>>

NextPure == ApplyBuildStations \/ ApplyFilterLocal

SpecPure == InitPure /\ [][NextPure]_vars

(* ------------------------------------------------------------------ *)
(* Properties                                                          *)
(* ------------------------------------------------------------------ *)

\* the request in progress, or just finished, is a resolve request
Resolving == calls # <<>> /\ calls[1].op = "station"

\* the request in progress, or just finished, is a browse request
Browsing ==
    \/ pc \notin {"idle", "done", "resolve_station", "resolve_click", "built", "filtered"}
    \/ pc = "done" /\ result.kind = "BrowseMediaSource"

\* the directory holds no station with the requested id
Absent == \A i \in 1..Len(directory) : directory[i].uuid # item

\* the station the directory holds under the requested id
Requested == directory[CHOOSE i \in 1..Len(directory) : directory[i].uuid = item]

\* neither the codec table nor the extension of the url gives a mime type
NoMime(s) == s.codec \notin {"MP3", "AAC", "AAC+", "OGG"} /\ GuessType(s.url) = None

Clicked == \E k \in 1..Len(calls) : calls[k].op = "station_click"

\* C1: a resolve request for an id the directory does not hold ends in
\* Unresolvable "no longer available"; one for a station whose codec is
\* not in the table and whose url extension gives no mime type ends in
\* Unresolvable "could not determine stream type"; in both cases no
\* station_click call is made, at any point of the request.
C1_ResolveFailures ==
    Resolving =>
        /\ Absent =>
              /\ ~Clicked
              /\ pc # "resolve_click"
              /\ pc = "done" =>
                    result = Unresolvable("Radio station is no longer available")
        /\ (~Absent /\ NoMime(Requested)) =>
              /\ ~Clicked
              /\ pc # "resolve_click"
              /\ pc = "done" =>
                    result = Unresolvable("Could not determine stream type of radio station")

\* C1 witness: a resolve request for a station that exists and has no
\* determinable mime type has ended in its Unresolvable
C1_Witness ==
    /\ Resolving
    /\ pc = "done"
    /\ ~Absent
    /\ result = Unresolvable("Could not determine stream type of radio station")

\* C2: when resolve finds the station and determines its mime type, the
\* request ends with the station's resolved url and mime type, whether or
\* not the station_click call succeeds.
C2_ClickFailureKeepsResult ==
    (Resolving /\ pc = "done" /\ ~Absent /\ ~NoMime(Requested)) =>
        result = PlayMedia(Requested.url_resolved,
                           IF Requested.codec \in DOMAIN CODEC_TO_MIMETYPE
                           THEN CODEC_TO_MIMETYPE[Requested.codec]
                           ELSE GuessType(Requested.url))

\* the k-th smallest element of the set S of numbers
Nth(S, k) == CHOOSE x \in S : Cardinality({y \in S : y < x}) = k - 1

\* the stations of the list L that a node is owed to: the codec is not the
\* sentinel, and the table or the url extension gives a mime type
Renderable(s) == s.codec # "UNKNOWN" /\ ~NoMime(s)

\* C3: _async_build_stations yields one node for each station of its input
\* whose codec is not "UNKNOWN" and whose mime type can be determined, and
\* for no other; the nodes stand in input order; each is a playable leaf
\* that is not expandable and carries the station id; for a codec of the
\* table the mime type is the table's, whatever the url.
C3_BuildStations ==
    pc = "built" =>
        LET kept == {i \in 1..Len(directory) : Renderable(directory[i])}
        IN  /\ Len(children) = Cardinality(kept)
            /\ \A k \in 1..Len(children) :
                  LET s == directory[Nth(kept, k)]
                      node == children[k]
                  IN  /\ node.identifier = s.uuid
                      /\ node.can_play
                      /\ ~node.can_expand
                      /\ s.codec \in DOMAIN CODEC_TO_MIMETYPE =>
                            node.media_content_type = CODEC_TO_MIMETYPE[s.codec]
                      /\ s.codec \notin DOMAIN CODEC_TO_MIMETYPE =>
                            node.media_content_type = GuessType(s.url)

\* C3 witness: a list was built in which a station with codec OGG and an
\* .mp3 url got the table's mime type, and a station was left out
C3_Witness ==
    /\ pc = "built"
    /\ Len(children) >= 2
    /\ Len(children) < Len(directory)
    /\ \E k \in 1..Len(children) :
          /\ children[k].media_content_type = "application/ogg"
          /\ \E i \in 1..Len(directory) :
                /\ directory[i].uuid = children[k].identifier
                /\ GuessType(directory[i].url) = "audio/mpeg"

\* the distance the library reports for a station from the host's coordinate
DistanceOf(s) ==
    vincenty(<<HomeLatitude, HomeLongitude>>, <<s.latitude, s.longitude>>, FALSE)

\* C9: _filter_local_stations returns, in input order, exactly the stations
\* with both coordinates present, country code 'RU', and a reported
\* distance from the host's coordinate strictly below 100 km.
C9_FilterLocal ==
    pc = "filtered" =>
        LET kept == {i \in 1..Len(directory) :
                        /\ directory[i].latitude # NoneNum
                        /\ directory[i].longitude # NoneNum
                        /\ directory[i].countrycode = <<82, 85>>
                        /\ DistanceOf(directory[i]) # NoneNum
                        /\ DistanceOf(directory[i]) < 100}
        IN  /\ Len(result.stations) = Cardinality(kept)
            /\ \A k \in 1..Len(result.stations) :
                  result.stations[k] = directory[Nth(kept, k)]

\* C9 witness: the filter kept a station and dropped one at exactly 100 km
\* and one for which the distance was not reported
C9_Witness ==
    /\ pc = "filtered"
    /\ Len(result.stations) = 1
    /\ \E i, j \in 1..Len(directory) :
          /\ directory[i].latitude # NoneNum /\ directory[i].longitude # NoneNum
          /\ DistanceOf(directory[i]) = 100
          /\ directory[j].latitude # NoneNum /\ directory[j].longitude # NoneNum
          /\ DistanceOf(directory[j]) = NoneNum

\* the browse request in progress, or just finished, has the root identifier
BrowsingRoot == Browsing /\ ~TruthyStr(item)

\* the four station queries of a root request, in the order of the code
RootQueries == <<PopularQuery, LanguageQuery, LocalQuery, CountryQuery>>

\* the five parts of the children of the root, in the order of the code
RootParts ==
    << _async_build_stations(Stations(PopularQuery)),
       <<DirectoryNode(STR_TAG, STR_BY_CATEGORY)>>,
       _async_build_stations(Stations(LanguageQuery)),
       _async_build_stations(
           _filter_local_stations(Stations(LocalQuery), HomeLatitude, HomeLongitude)),
       _async_build_stations(Stations(CountryQuery)) >>

\* the first m parts, concatenated
RECURSIVE FirstParts(_)
FirstParts(m) == IF m = 0 THEN <<>> ELSE FirstParts(m - 1) \o RootParts[m]

\* at each point of a root request: how many queries have been sent and
\* how many parts the children hold
RootStage ==
    CASE pc = "popular" -> <<0, 0>>
      [] pc = "popular_wait" -> <<1, 0>>
      [] pc = "by_tag" -> <<1, 1>>
      [] pc = "by_language" -> <<1, 2>>
      [] pc = "language_wait" -> <<2, 2>>
      [] pc = "local" -> <<2, 3>>
      [] pc = "local_wait" -> <<3, 3>>
      [] pc = "by_country" -> <<3, 4>>
      [] pc = "country_wait" -> <<4, 4>>
      [] OTHER -> <<4, 5>>

\* C4: a browse request with the root identifier sends the popular, the
\* language, the local and the country query in this order, each only
\* after the nodes of the reply before it have been added, and returns a
\* container that cannot be played and can be expanded, whose children are
\* the popular nodes, the one "tag" entry, the language nodes, the local
\* nodes and the country nodes, in this order.
C4_RootBrowse ==
    BrowsingRoot =>
        /\ calls = SubSeq(RootQueries, 1, RootStage[1])
        /\ children = FirstParts(RootStage[2])
        /\ pc \notin {"tag_stations_wait", "tag_index_wait"}
        /\ pc = "done" =>
              /\ ~result.can_play
              /\ result.can_expand
              /\ result.children = FirstParts(5)
              /\ RootParts[2][1].identifier = STR_TAG
              /\ RootParts[2][1].can_expand
              /\ ~RootParts[2][1].can_play

\* C4 witness: a root request has returned, with local nodes among the
\* children, and the popular, language and country parts all different
C4_Witness ==
    /\ BrowsingRoot
    /\ pc = "done"
    /\ RootParts[4] # <<>>
    /\ RootParts[1] # RootParts[5]
    /\ RootParts[3] # RootParts[5]
    /\ RootParts[3] # <<>>

\* "tag/"
TagSlash == STR_TAG \o <<SLASH>>

\* the identifier is "tag/<name>" with a name that is not empty
IsTagDetail(id) == Len(id) > 4 /\ SubSeq(id, 1, 4) = TagSlash

\* the children are final
ChildrenFinal == pc \in {"return", "done"}

\* the tag names the children list, in order
Listed == [k \in 1..Len(children) |-> SubSeq(children[k].identifier, 5, Len(children[k].identifier))]

CountedNames == {tag_count[i].name : i \in 1..Len(tag_count)}

\* the children are the containers of the tag index
IndexChildren ==
    /\ Len(children) = (IF Len(tag_count) < 100 THEN Len(tag_count) ELSE 100)
    /\ \A k \in 1..Len(children) :
          /\ children[k].can_expand
          /\ ~children[k].can_play
          /\ Len(children[k].identifier) > 4
          /\ SubSeq(children[k].identifier, 1, 4) = TagSlash
          /\ Listed[k] \in CountedNames

\* the children are station leaves
LeafChildren ==
    \A k \in 1..Len(children) :
        /\ children[k].can_play
        /\ ~children[k].can_expand
        /\ \E i \in 1..Len(directory) : directory[i].uuid = children[k].identifier

\* no query of the popular, language, local or country builder was sent
NoRootQuery ==
    \A k \in 1..Len(calls) :
        calls[k] \notin {PopularQuery, LanguageQuery, LocalQuery, CountryQuery}

\* C5 as stated: for an identifier that is not the root the four station
\* builders send nothing; the children are the tag containers for "tag",
\* station leaves for "tag/<name>", and empty for every other identifier.
C5_Original ==
    (Browsing /\ TruthyStr(item)) =>
        /\ NoRootQuery
        /\ ChildrenFinal =>
              /\ item = STR_TAG => IndexChildren
              /\ IsTagDetail(item) => LeafChildren
              /\ (item # STR_TAG /\ ~IsTagDetail(item)) => children = <<>>

\* C5 as amended: the tag containers are the children for "tag" and for
\* "tag/" (nothing after the first slash); the rest as stated.
C5_NonRootBrowse ==
    (Browsing /\ TruthyStr(item)) =>
        /\ NoRootQuery
        /\ ChildrenFinal =>
              /\ item \in {STR_TAG, TagSlash} => IndexChildren
              /\ IsTagDetail(item) => LeafChildren /\ tag_count = <<>>
              /\ (item \notin {STR_TAG, TagSlash} /\ ~IsTagDetail(item)) =>
                    children = <<>> /\ calls = <<>>

\* C5 witness: a request for "tag/" has returned the tag containers
C5_Witness ==
    /\ Browsing
    /\ pc = "done"
    /\ item = TagSlash
    /\ children # <<>>
    /\ children[1].can_expand

\* the tag index of the request has been built
IndexBuilt ==
    /\ Browsing
    /\ item \in {STR_TAG, TagSlash}
    /\ pc \in {"by_language", "local", "by_country", "return", "done"}

\* C6: the tag index lists at most 100 tags, none twice, in ascending order
\* of name, and no tag left out was counted more often than a listed one.
C6_TagIndex ==
    IndexBuilt =>
        LET listed == {Listed[k] : k \in 1..Len(children)}
        IN  /\ Len(children) <= 100
            /\ \A j, k \in 1..Len(children) : Listed[j] = Listed[k] => j = k
            /\ \A k \in 1..(Len(children) - 1) : StrLess(Listed[k], Listed[k + 1])
            /\ listed \subseteq CountedNames
            /\ \A i, j \in 1..Len(tag_count) :
                  (tag_count[i].name \in listed /\ tag_count[j].name \notin listed)
                      => tag_count[i].stationcount >= tag_count[j].stationcount

\* C6 witness: more than 100 tags were counted, 100 are listed, and a tag
\* counted more than once is among them
C6_Witness ==
    /\ IndexBuilt
    /\ Len(tag_count) > 100
    /\ Len(children) = 100
    /\ \E i \in 1..Len(tag_count) :
          /\ tag_count[i].stationcount > 1
          /\ i > 100
          /\ \E k \in 1..Len(children) : Listed[k] = tag_count[i].name

\* the places at which a component of the comma-separated string s starts
Starts(s) == {p \in 1..(Len(s) + 1) : p = 1 \/ s[p - 1] = COMMA}

\* the component of s that starts at p, with the whitespace at its ends removed
ComponentAt(s, p) ==
    LET e == CHOOSE q \in (p - 1)..Len(s) :
                 /\ q = Len(s) \/ s[q + 1] = COMMA
                 /\ \A r \in p..q : s[r] # COMMA
        x == {r \in p..e : ~IsSpace(s[r])}
    IN  IF x = {} THEN <<>> ELSE [r \in 1..(SetMax(x) - SetMin(x) + 1) |-> s[SetMin(x) + r - 1]]

\* C7: the count of a tag is the number of pairs of a station of the reply
\* and a place in its tags field at which that tag stands as a trimmed
\* component that is not empty; names are compared as they are written.
C7_TagCounts ==
    IndexBuilt =>
        LET ru == {i \in 1..Len(directory) : directory[i].countrycode = <<82, 85>>}
            occ == UNION {{<<i, p, ComponentAt(OrEmpty(directory[i].tags), p)>> :
                              p \in Starts(OrEmpty(directory[i].tags))} : i \in ru}
            real == {o \in occ : o[3] # <<>>}
        IN  /\ \A i \in 1..Len(tag_count) :
                  tag_count[i].stationcount =
                      Cardinality({o \in real : o[3] = tag_count[i].name})
            /\ \A o \in real : o[3] \in CountedNames
            /\ \A i, j \in 1..Len(tag_count) :
                  tag_count[i].name = tag_count[j].name => i = j

\* C7 witness: a station listing "Rock" twice among empty pieces was
\* counted, and "Jazz" and "jazz" were counted apart
C7_Witness ==
    /\ IndexBuilt
    /\ \E i \in 1..Len(tag_count) :
          tag_count[i].name = STR_ROCK /\ tag_count[i].stationcount = 3
    /\ \E i, j \in 1..Len(tag_count) :
          /\ tag_count[i] = [name |-> STR_CJAZZ, stationcount |-> 1]
          /\ tag_count[j] = [name |-> STR_JAZZ, stationcount |-> 1]

\* the reply holds three stations tagged "Jazz, Rock", "jazz", "Rock, Pop"
ThreeStations ==
    /\ IndexBuilt
    /\ item = STR_TAG
    /\ Len(directory) = 3
    /\ \A i \in 1..3 : directory[i].countrycode = <<82, 85>>
    /\ directory[1].tags = <<74, 97, 122, 122, 44, 32, 82, 111, 99, 107>>
    /\ directory[2].tags = <<106, 97, 122, 122>>
    /\ directory[3].tags = <<82, 111, 99, 107, 44, 32, 80, 111, 112>>

\* C8 as stated: these three stations give the counts Jazz:2, Rock:2, Pop:1.
C8_Original ==
    ThreeStations =>
        {tag_count[i] : i \in 1..Len(tag_count)} =
            {[name |-> STR_CJAZZ, stationcount |-> 2],
             [name |-> STR_ROCK, stationcount |-> 2],
             [name |-> STR_POP, stationcount |-> 1]}

\* C8 as amended: they give Jazz:1, Rock:2, jazz:1, Pop:1, listed in the
\* order Jazz, Pop, Rock, jazz.
C8_ThreeStations ==
    ThreeStations =>
        /\ {tag_count[i] : i \in 1..Len(tag_count)} =
              {[name |-> STR_CJAZZ, stationcount |-> 1],
               [name |-> STR_ROCK, stationcount |-> 2],
               [name |-> STR_JAZZ, stationcount |-> 1],
               [name |-> STR_POP, stationcount |-> 1]}
        /\ Len(tag_count) = 4
        /\ Listed = <<STR_CJAZZ, STR_POP, STR_ROCK, STR_JAZZ>>

\* C8 witness: the index was built from the three stations
C8_Witness == ThreeStations /\ pc = "done" /\ Len(children) = 4

\* a resolve request for a station the directory holds has ended
Resolved == Resolving /\ pc = "done" /\ ~Absent

\* C10 as stated: for a station the directory holds, resolve succeeds
\* exactly when _async_build_stations makes a node for it, and a station
\* with codec "UNKNOWN" is never resolved.  Resolve is taken to succeed
\* when it raises neither Unresolvable, so that the outcome of the
\* station_click call does not decide the statement.
C10_Original ==
    Resolved =>
        /\ result.kind # "Unresolvable" <=> _async_build_stations(<<Requested>>) # <<>>
        /\ Requested.codec = "UNKNOWN" => result.kind # "PlayMedia"

\* C10 as amended: resolve fails its stream-type check exactly when neither
\* the table nor the url gives a mime type; a station that
\* _async_build_stations makes a node for passes the check, and when the
\* request returns, it returns the node's mime type; for a codec other than
\* "UNKNOWN" the node exists exactly when the check is passed; for
\* "UNKNOWN" there is never a node.
C10_ResolveVsBrowse ==
    Resolved =>
        LET nodes == _async_build_stations(<<Requested>>)
            failed == result = Unresolvable("Could not determine stream type of radio station")
        IN  /\ failed <=> NoMime(Requested)
            /\ nodes # <<>> =>
                  /\ ~failed
                  /\ result.kind = "PlayMedia" =>
                        /\ result.mime_type = nodes[1].media_content_type
                        /\ result.url = Requested.url_resolved
            /\ Requested.codec # "UNKNOWN" => (nodes # <<>> <=> ~failed)
            /\ Requested.codec = "UNKNOWN" => nodes = <<>>

\* C10 witness: a station with codec "UNKNOWN" was resolved to a url
C10_Witness ==
    /\ Resolved
    /\ Requested.codec = "UNKNOWN"
    /\ result.kind = "PlayMedia"

====
